---- MODULE Spec2Model ----
(***************************************************************************)
(* Model of the indicator pipeline of the AI Singularity Tracker dashboard *)
(* (src/src/dashboard/app.py): align_to_quarterly, calculate_yoy_changes   *)
(* and calculate_singularity_score.                                        *)
(*                                                                         *)
(* Numbers are the float64 values of the program with the rounding left    *)
(* out: a finite value is an exact fraction n/d in lowest terms, and the   *)
(* three IEEE specials (inf, -inf, nan) are kept, because numpy scalar     *)
(* arithmetic produces them instead of raising.                            *)
(***************************************************************************)
EXTENDS Integers, Sequences, FiniteSets, TLC

VARIABLES
    pc,                   \* position in the run being modelled
    df,                   \* the frame handed to align_to_quarterly / calculate_yoy_changes
    quarterly_data,       \* the frame returned by align_to_quarterly
    changes,              \* the mapping returned by calculate_yoy_changes
    labor_changes,        \* arguments of calculate_singularity_score
    gdp_changes,
    accountants_changes,
    unemployment_changes,
    raw_z,                \* per period: the z-scores before np.clip
    clipped_z,            \* per period: the z-scores after np.clip
    table,                \* per period: the weight table the branch at line 124 took
    weighted_z,           \* per period: weighted_z
    scores,               \* the mapping returned by calculate_singularity_score
    realigned,            \* align_to_quarterly applied to its own result
    processed_file,       \* the processed file of a metric, as it is on disk
    cache,                \* what st.cache_data holds for load_data
    runs,                 \* number of dashboard runs so far
    writes,               \* number of times the processed file was rewritten
    clock,                \* datetime.now(), as a month
    remote,               \* the series the FRED URL serves
    raw_file,             \* the raw file {data_name}_last_{quarters}_quarters.csv
    last_fetch,           \* what the last fetch_fred_data call found and did
    trend,                \* what the last analyze_trend call did
    raw_months,           \* the files accountants_{mon}{yy}.csv, each as <<mon, yy>>
    missing_months,       \* fetch_accountants_employed_data: what get_missing_months returned
    idx,                  \* fetch_accountants_employed_data: the loop index i, counted from 1
    attempts,             \* fetch_month_data: the timeouts of the attempts made for the month
    successful_fetches,
    failed_fetches,
    events,               \* the requests and pauses of the run, in order
    previous_run,         \* the run of fetch_accountants_employed_data before this one
    data_files            \* the paths under data/ that exist, for the processing scripts

vars == <<pc, df, quarterly_data, changes, labor_changes, gdp_changes,
          accountants_changes, unemployment_changes, raw_z, clipped_z,
          table, weighted_z, scores, realigned, processed_file, cache, runs, writes,
          clock, remote, raw_file, last_fetch, trend, raw_months, missing_months,
          idx, attempts, successful_fetches, failed_fetches, events, previous_run,
          data_files>>

metricVars == <<df, quarterly_data, changes>>
scoreVars == <<labor_changes, gdp_changes, accountants_changes,
               unemployment_changes, raw_z, clipped_z, table, weighted_z, scores>>
runVars == <<processed_file, cache, runs, writes>>
fetchVars == <<clock, remote, raw_file, last_fetch, trend>>
accountantsVars == <<raw_months, missing_months, idx, attempts, successful_fetches,
                     failed_fetches, events, previous_run>>
\* the state of the ingestion scripts and of the dashboard's cache
ingestVars == <<realigned, runVars, fetchVars, accountantsVars, data_files>>

-----------------------------------------------------------------------------
(* Bounds of the model *)

\* longest quarterly series (13 rows make the 3_year window defined)
MaxLen == 13
\* largest number of places where a quarterly series changes its value
MaxSteps == 2
\* number of consecutive calendar months a monthly series is drawn from
MaxMonths == 13
\* the values an observation takes
Values == {0, 9, 10}
\* first year of every series
StartYear == 2022
\* calendar month of the first candidate observation of a monthly series
StartMonth == 3

-----------------------------------------------------------------------------
(* float64 values without rounding *)

Abs(i) == IF i < 0 THEN -i ELSE i

RECURSIVE GCD(_, _)
GCD(a, b) == IF b = 0 THEN a ELSE GCD(b, a % b)

\* the fraction n/d (d # 0) in lowest terms with a positive denominator
Fin(n, d) ==
    LET g == GCD(Abs(n), Abs(d))
        s == IF d < 0 THEN -1 ELSE 1
    IN  [k |-> "fin", n |-> (s * n) \div g, d |-> (s * d) \div g]

Inf == [k |-> "inf", n |-> 0, d |-> 1]
NegInf == [k |-> "ninf", n |-> 0, d |-> 1]
NaN == [k |-> "nan", n |-> 0, d |-> 1]
\* a key that is not in a dict
Absent == [k |-> "absent", n |-> 0, d |-> 1]

IsFin(x) == x.k = "fin"
IsNaN(x) == x.k = "nan"

\* -1, 0 or 1 for a value that is not nan
Sign(x) ==
    CASE x.k = "inf" -> 1
      [] x.k = "ninf" -> -1
      [] OTHER -> IF x.n > 0 THEN 1 ELSE IF x.n < 0 THEN -1 ELSE 0

\* inf or -inf by sign
Signed(s) == IF s > 0 THEN Inf ELSE NegInf

FNeg(x) ==
    CASE x.k = "fin" -> Fin(-x.n, x.d)
      [] x.k = "inf" -> NegInf
      [] x.k = "ninf" -> Inf
      [] OTHER -> NaN

FAdd(a, b) ==
    CASE IsNaN(a) \/ IsNaN(b) -> NaN
      [] IsFin(a) /\ IsFin(b) -> Fin(a.n * b.d + b.n * a.d, a.d * b.d)
      [] IsFin(a) -> b
      [] IsFin(b) -> a
      [] OTHER -> IF a.k = b.k THEN a ELSE NaN

FSub(a, b) == FAdd(a, FNeg(b))

FMul(a, b) ==
    CASE IsNaN(a) \/ IsNaN(b) -> NaN
      [] IsFin(a) /\ IsFin(b) -> Fin(a.n * b.n, a.d * b.d)
      [] OTHER -> IF Sign(a) = 0 \/ Sign(b) = 0 THEN NaN ELSE Signed(Sign(a) * Sign(b))

\* numpy true division: x/0 is inf, -inf or nan, never an exception
FDiv(a, b) ==
    CASE IsNaN(a) \/ IsNaN(b) -> NaN
      [] IsFin(a) /\ IsFin(b) ->
            IF b.n # 0 THEN Fin(a.n * b.d, a.d * b.n)
            ELSE IF a.n = 0 THEN NaN ELSE Signed(a.n)
      [] IsFin(a) -> Fin(0, 1)
      [] IsFin(b) -> Signed(Sign(a) * (IF b.n < 0 THEN -1 ELSE 1))
      [] OTHER -> NaN

\* a < b; every comparison with nan is false
FLt(a, b) ==
    CASE IsNaN(a) \/ IsNaN(b) -> FALSE
      [] IsFin(a) /\ IsFin(b) -> a.n * b.d < b.n * a.d
      [] a.k = b.k -> FALSE
      [] OTHER -> a.k = "ninf" \/ b.k = "inf"

-----------------------------------------------------------------------------
(* Dates: the first day of a month, counted in months *)

MakeDate(year, month) == year * 12 + (month - 1)
DateMonth(date) == (date % 12) + 1
DateYear(date) == date \div 12
DateQuarter(date) == ((DateMonth(date) - 1) \div 3) + 1

\* a row as load_data builds it: the file's year, month and metric columns
\* and the date column made of year, month and day 1
Row(year, month, value) ==
    [year |-> year, month |-> month, date |-> MakeDate(year, month), value |-> value]

-----------------------------------------------------------------------------
(* The frames a run can load *)

Periods == {"1_year", "2_year", "3_year"}

\* a dict over the period names with no key
NoChanges == [p \in Periods |-> Absent]

\* the value sequences of length len that change value at most steps times
RECURSIVE ValueSeqs(_, _)
ValueSeqs(len, steps) ==
    IF len = 0 THEN {<<>>}
    ELSE IF len = 1 THEN {<<Fin(v, 1)>> : v \in Values}
    ELSE {Append(q, q[len - 1]) : q \in ValueSeqs(len - 1, steps)}
         \cup (IF steps = 0 THEN {}
               ELSE {Append(q, Fin(v, 1)) :
                        q \in ValueSeqs(len - 1, steps - 1),
                        v \in Values} \ {Append(q, q[len - 1]) : q \in ValueSeqs(len - 1, steps - 1)})

\* a quarterly file as the FRED processing step writes it: consecutive
\* quarters, dated on the first month of the quarter, oldest first
QuarterlyFrame(vs) ==
    [i \in 1..Len(vs) |->
        Row(StartYear + ((i - 1) \div 4), 1 + 3 * ((i - 1) % 4), vs[i])]

QuarterlyFrames ==
    {QuarterlyFrame(vs) : vs \in UNION {ValueSeqs(len, MaxSteps) : len \in 0..MaxLen}}

\* the months of a set, oldest first
RECURSIVE Ascending(_)
Ascending(S) ==
    IF S = {} THEN <<>>
    ELSE LET m == CHOOSE x \in S : \A y \in S : x <= y
         IN  <<m>> \o Ascending(S \ {m})

ValueList == <<0, 9, 10>>

\* a monthly file: any months out of MaxMonths consecutive ones, oldest
\* first, one row a month
MonthlyFrame(months, shift) ==
    LET ms == Ascending(months)
    IN  [i \in 1..Len(ms) |->
            LET date == MakeDate(StartYear, StartMonth) + ms[i]
            IN  Row(DateYear(date), DateMonth(date),
                    Fin(ValueList[1 + ((ms[i] + shift) % Len(ValueList))], 1))]

MonthlyFrames ==
    {MonthlyFrame(months, shift) :
        months \in SUBSET (0..(MaxMonths - 1)), shift \in 0..(Len(ValueList) - 1)}

-----------------------------------------------------------------------------
(* align_to_quarterly *)

\* December left out of the quarter-end months
QuarterEndMonths_NoDecember == {3, 6, 9}

QuarterEndMonths == {3, 6, 9, 12}

\* df['date'].dt.month.isin([3, 6, 9, 12])
IsQuarterEnd(row) == DateMonth(row.date) \in QuarterEndMonths

\* df.iloc[2::3] instead of the month test: every third row by position
RECURSIVE QuarterEndRows_EveryThird(_)
QuarterEndRows_EveryThird(frame) ==
    IF Len(frame) < 3 THEN <<>>
    ELSE <<frame[3]>> \o QuarterEndRows_EveryThird(SubSeq(frame, 4, Len(frame)))

\* df[mask]: the rows that satisfy the mask, in the frame's order
RECURSIVE QuarterEndRows(_)
QuarterEndRows(frame) ==
    IF frame = <<>> THEN <<>>
    ELSE (IF IsQuarterEnd(Head(frame)) THEN <<Head(frame)>> ELSE <<>>)
         \o QuarterEndRows(Tail(frame))

\* the row put into a frame sorted by date, after the rows of the same date
RECURSIVE InsertByDate(_, _)
InsertByDate(sorted, row) ==
    IF sorted = <<>> THEN <<row>>
    ELSE IF row.date < Head(sorted).date THEN <<row>> \o sorted
    ELSE <<Head(sorted)>> \o InsertByDate(Tail(sorted), row)

\* frame.sort_values('date').reset_index(drop=True)
RECURSIVE SortByDate(_)
SortByDate(frame) ==
    IF frame = <<>> THEN <<>>
    ELSE InsertByDate(SortByDate(SubSeq(frame, 1, Len(frame) - 1)), frame[Len(frame)])

\* df['quarter'] = ...; df['year'] = ...: the two column assignments
WithQuarterColumns(frame) ==
    [i \in 1..Len(frame) |->
        [year |-> DateYear(frame[i].date), month |-> frame[i].month,
         date |-> frame[i].date, value |-> frame[i].value,
         quarter |-> DateQuarter(frame[i].date)]]

align_to_quarterly(frame) == SortByDate(QuarterEndRows(WithQuarterColumns(frame)))

-----------------------------------------------------------------------------
(* calculate_yoy_changes *)

period_count(p) ==
    CASE p = "1_year" -> 4
      [] p = "2_year" -> 8
      [] p = "3_year" -> 12

\* iloc[-period_count] instead of iloc[-(period_count+1)]
PastIndex_OffByOne(len, count) == len - count + 1

\* the position, counted from 1, of iloc[-(period_count+1)] in a frame of len rows
PastIndex(len, count) == len - count

\* ((current_value - past_value) / past_value) * 100
PctChange(current_value, past_value) ==
    FMul(FDiv(FSub(current_value, past_value), past_value), Fin(100, 1))

calculate_yoy_changes(frame) ==
    LET df_sorted == SortByDate(frame)
        len == Len(df_sorted)
    IN  [p \in Periods |->
            IF len > period_count(p)
            THEN PctChange(df_sorted[len].value,
                           df_sorted[PastIndex(len, period_count(p))].value)
            ELSE Absent]

-----------------------------------------------------------------------------
(* One metric's path through the dashboard body (lines 246-256) *)

NoScores == [p \in Periods |-> Absent]
NoZ == [p \in Periods |-> [labor_share |-> Absent, gdp_per_capita |-> Absent,
                           accountants |-> Absent, unemployment |-> Absent]]
NoTable == [p \in Periods |-> "none"]

ScoreIdle ==
    /\ labor_changes = NoChanges
    /\ gdp_changes = NoChanges
    /\ accountants_changes = NoChanges
    /\ unemployment_changes = [is_none |-> TRUE, at |-> NoChanges]
    /\ raw_z = NoZ
    /\ clipped_z = NoZ
    /\ table = NoTable
    /\ weighted_z = NoScores
    /\ scores = NoScores

\* no file
NoFile == [exists |-> FALSE, rows |-> <<>>]
\* the file with these rows
File(rows) == [exists |-> TRUE, rows |-> rows]

NoFetch == [outcome |-> "none", file_before |-> NoFile, returned |-> <<>>]
NoTrend == [outcome |-> "none", one_year_change |-> Absent, two_year_change |-> Absent]

\* nothing has been fetched, cached or run
\* no run of fetch_accountants_employed_data has ended yet
NoRun == [ran |-> FALSE, missing |-> <<>>, fetched |-> {}]

IngestIdle ==
    /\ realigned = <<>>
    /\ processed_file = NoFile
    /\ cache = NoFile
    /\ runs = 0
    /\ writes = 0
    /\ clock = 0
    /\ remote = <<>>
    /\ raw_file = NoFile
    /\ last_fetch = NoFetch
    /\ trend = NoTrend
    /\ raw_months = {}
    /\ missing_months = <<>>
    /\ idx = 0
    /\ attempts = <<>>
    /\ successful_fetches = 0
    /\ failed_fetches = 0
    /\ events = <<>>
    /\ previous_run = NoRun
    /\ data_files = {}

\* a quarterly metric (labor share, GDP per capita) or a monthly one
\* (accountants, unemployment) has been loaded
Init ==
    /\ \/ pc = "quarterly_loaded" /\ df \in QuarterlyFrames
       \/ pc = "monthly_loaded" /\ df \in MonthlyFrames
    /\ quarterly_data = <<>>
    /\ changes = NoChanges
    /\ ScoreIdle
    /\ IngestIdle

\* accountants_quarterly = align_to_quarterly(accountants_df, ...)
AlignToQuarterly ==
    /\ pc = "monthly_loaded"
    /\ df' = WithQuarterColumns(df)
    /\ quarterly_data' = align_to_quarterly(df)
    /\ pc' = "aligned"
    /\ UNCHANGED <<changes, scoreVars, ingestVars>>

\* labor_changes = calculate_yoy_changes(labor_share_df, ...)
CalculateYoYChanges ==
    /\ pc = "quarterly_loaded"
    /\ changes' = calculate_yoy_changes(df)
    /\ pc' = "changes_returned"
    /\ UNCHANGED <<df, quarterly_data, scoreVars, ingestVars>>

\* accountants_changes = calculate_yoy_changes(accountants_quarterly, ...)
CalculateYoYChangesAligned ==
    /\ pc = "aligned"
    /\ changes' = calculate_yoy_changes(quarterly_data)
    /\ pc' = "aligned_changes_returned"
    /\ UNCHANGED <<df, quarterly_data, scoreVars, ingestVars>>

Next == AlignToQuarterly \/ CalculateYoYChanges \/ CalculateYoYChangesAligned

Spec == Init /\ [][Next]_vars

-----------------------------------------------------------------------------
(* calculate_singularity_score *)

weights ==
    [labor_share |-> Fin(30, 100), gdp_per_capita |-> Fin(25, 100),
     accountants |-> Fin(20, 100), unemployment |-> Fin(25, 100)]

adjusted_weights ==
    [labor_share |-> Fin(40, 100), gdp_per_capita |-> Fin(35, 100),
     accountants |-> Fin(25, 100)]

std_devs ==
    [labor_share |-> Fin(25, 10), gdp_per_capita |-> Fin(30, 10),
     accountants |-> Fin(50, 10), unemployment |-> Fin(150, 10)]

\* period in changes
Has(changes_map, p) == changes_map[p] # Absent

\* the truth value of the unemployment_changes argument: None and {} are false
Truthy(u) == ~u.is_none /\ \E p \in Periods : Has(u.at, p)

\* any(...) instead of all(...)
RequiredDefined_Any(p, labor, gdp, accountants) ==
    Has(labor, p) \/ Has(gdp, p) \/ Has(accountants, p)

\* all(period in changes for changes in [labor_changes, gdp_changes, accountants_changes])
RequiredDefined(p, labor, gdp, accountants) ==
    Has(labor, p) /\ Has(gdp, p) /\ Has(accountants, p)

\* the sign of the labor share change not inverted
LaborZ_NoNeg(change) == FDiv(change, Fin(25, 10))

LaborZ(change) == FDiv(FNeg(change), std_devs.labor_share)
GdpZ(change) == FDiv(change, std_devs.gdp_per_capita)
AccountantsZ(change) == FDiv(FNeg(change), std_devs.accountants)
UnemploymentZ(u, p) ==
    IF Truthy(u) /\ Has(u.at, p)
    THEN FDiv(u.at[p], std_devs.unemployment)
    ELSE Fin(0, 1)

\* np.clip(x, lo, hi): nan stays nan
Clip(x, lo, hi) ==
    IF IsNaN(x) THEN NaN
    ELSE IF FLt(x, lo) THEN lo
    ELSE IF FLt(hi, x) THEN hi
    ELSE x

ClipZ(x) == Clip(x, Fin(-3, 1), Fin(3, 1))

\* the builtins min(a, b) and max(a, b): b is taken only if it compares
\* below (above) a, so a nan in second place is never taken
PyMin(a, b) == IF FLt(b, a) THEN b ELSE a
PyMax(a, b) == IF FLt(a, b) THEN b ELSE a

\* the branch at line 124
TableFor(u) == IF Truthy(u) THEN "weights" ELSE "adjusted_weights"

WeightedZ(z, u) ==
    IF Truthy(u)
    THEN FAdd(FAdd(FAdd(FMul(weights.labor_share, z.labor_share),
                        FMul(weights.gdp_per_capita, z.gdp_per_capita)),
                   FMul(weights.accountants, z.accountants)),
              FMul(weights.unemployment, z.unemployment))
    ELSE FAdd(FAdd(FMul(adjusted_weights.labor_share, z.labor_share),
                   FMul(adjusted_weights.gdp_per_capita, z.gdp_per_capita)),
              FMul(adjusted_weights.accountants, z.accountants))

\* the clamp left out
Clamp_None(x) == x

\* max(0, min(100, normalized_score))
Clamp(x) == PyMax(Fin(0, 1), PyMin(Fin(100, 1), x))

\* 50 + weighted_z * 50: the division by 3 left out
NormalizedScore_NoThird(wz) ==
    PyMax(Fin(0, 1), PyMin(Fin(100, 1), FAdd(Fin(50, 1), FMul(wz, Fin(50, 1)))))

\* 50 + (weighted_z * 50/3), then the clamp
NormalizedScore(wz) ==
    Clamp(FAdd(Fin(50, 1), FDiv(FMul(wz, Fin(50, 1)), Fin(3, 1))))

RawZ(p, labor, gdp, accountants, u) ==
    [labor_share |-> LaborZ(labor[p]), gdp_per_capita |-> GdpZ(gdp[p]),
     accountants |-> AccountantsZ(accountants[p]), unemployment |-> UnemploymentZ(u, p)]

ClippedZ(z) ==
    [labor_share |-> ClipZ(z.labor_share), gdp_per_capita |-> ClipZ(z.gdp_per_capita),
     accountants |-> ClipZ(z.accountants), unemployment |-> ClipZ(z.unemployment)]

-----------------------------------------------------------------------------
(* The arguments a call of calculate_singularity_score can get *)

\* <<current value, past value>> of the series the changes are taken from
ChangePairs == {<<0, 0>>, <<10, 0>>, <<0, 10>>, <<10, 10>>, <<9, 10>>, <<20, 10>>}

\* number of whole years of history in a series
MaxYears == 3

\* a series of 4 * years + 1 quarters that held past and ends on current
StepFrame(years, pair) ==
    QuarterlyFrame([i \in 1..(4 * years + 1) |->
                        Fin(IF i = 4 * years + 1 THEN pair[1] ELSE pair[2], 1)])

ChangeMaps ==
    {NoChanges} \cup
    {calculate_yoy_changes(StepFrame(years, pair)) :
        years \in 1..MaxYears, pair \in ChangePairs}

InitScore ==
    /\ pc = "changes_ready"
    /\ df = <<>>
    /\ quarterly_data = <<>>
    /\ changes = NoChanges
    /\ labor_changes \in ChangeMaps
    /\ gdp_changes \in ChangeMaps
    /\ accountants_changes \in ChangeMaps
    /\ unemployment_changes \in
          {[is_none |-> TRUE, at |-> NoChanges]}
          \cup {[is_none |-> FALSE, at |-> m] : m \in ChangeMaps}
    /\ raw_z = NoZ
    /\ clipped_z = NoZ
    /\ table = NoTable
    /\ weighted_z = NoScores
    /\ scores = NoScores
    /\ IngestIdle

\* singularity_scores = calculate_singularity_score(labor_changes, gdp_changes,
\*                                                  accountants_changes, unemployment_changes)
CalculateSingularityScore ==
    /\ pc = "changes_ready"
    /\ LET emitted(p) == RequiredDefined(p, labor_changes, gdp_changes, accountants_changes)
           raw(p) == RawZ(p, labor_changes, gdp_changes, accountants_changes,
                          unemployment_changes)
       IN  /\ raw_z' = [p \in Periods |-> IF emitted(p) THEN raw(p) ELSE NoZ[p]]
           /\ clipped_z' = [p \in Periods |->
                                IF emitted(p) THEN ClippedZ(raw(p)) ELSE NoZ[p]]
           /\ table' = [p \in Periods |->
                            IF emitted(p) THEN TableFor(unemployment_changes) ELSE "none"]
           /\ weighted_z' = [p \in Periods |->
                                IF emitted(p)
                                THEN WeightedZ(ClippedZ(raw(p)), unemployment_changes)
                                ELSE Absent]
           /\ scores' = [p \in Periods |->
                            IF emitted(p)
                            THEN NormalizedScore(
                                    WeightedZ(ClippedZ(raw(p)), unemployment_changes))
                            ELSE Absent]
    /\ pc' = "scores_returned"
    /\ UNCHANGED <<metricVars, labor_changes, gdp_changes, accountants_changes,
                   unemployment_changes, ingestVars>>

NextScore == CalculateSingularityScore

SpecScore == InitScore /\ [][NextScore]_vars

-----------------------------------------------------------------------------
(* Properties of calculate_yoy_changes and align_to_quarterly, under Spec *)

\* the frame the returned changes were computed from
ChangesReturned == pc \in {"changes_returned", "aligned_changes_returned"}
ChangeInput == IF pc = "aligned_changes_returned" THEN quarterly_data ELSE df

\* value is the percentage change from past to current, both whole numbers:
\* the exact quotient when past is not 0, and what float division gives
\* (inf for a positive current, nan for 0/0) when it is
IsPctChange(value, current, past) ==
    IF past # 0
    THEN /\ value.k = "fin"
         /\ value.n * past = (current - past) * 100 * value.d
    ELSE value.k = (IF current > 0 THEN "inf" ELSE IF current < 0 THEN "ninf" ELSE "nan")

\* the whole number an observation holds
Whole(x) == x.n

\* C1: for a date-sorted series S and each window (1_year P=4, 2_year P=8,
\* 3_year P=12) the result of calculate_yoy_changes has the window if and
\* only if len(S) > P, its value is then (S[last] - S[last-P]) / S[last-P] * 100,
\* and a window with len(S) <= P is absent, not 0.
C1_YoYChanges ==
    ChangesReturned =>
        LET S == ChangeInput
            last == Len(S)
            Window(p, P) ==
                /\ (changes[p] # Absent) <=> (last > P)
                /\ last > P =>
                      IsPctChange(changes[p], Whole(S[last].value), Whole(S[last - P].value))
                /\ last <= P => changes[p] # Fin(0, 1)
        IN  Window("1_year", 4) /\ Window("2_year", 8) /\ Window("3_year", 12)

\* a series of 9 quarters: -10% over one year, 0% over two, no 3_year window
C1_Witness ==
    /\ pc = "changes_returned"
    /\ Len(df) = 9
    /\ changes["1_year"] = Fin(-10, 1)
    /\ changes["2_year"] = Fin(0, 1)
    /\ changes["3_year"] = Absent

\* C2: when the past value a window divides by is zero, calculate_yoy_changes
\* signals an error instead of returning, and no returned change is inf or nan.
C2_ZeroBaseIsAnError ==
    ChangesReturned =>
        \A p \in Periods :
            /\ Len(ChangeInput) > period_count(p) =>
                  Whole(ChangeInput[Len(ChangeInput) - period_count(p)].value) # 0
            /\ changes[p].k \in {"absent", "fin"}

\* C10: align_to_quarterly returns exactly the observations of calendar month
\* 3, 6, 9 or 12, each once, in increasing date order, none added or altered;
\* with no such observation the result is empty and the change calculation on
\* it has no window.
C10_AlignToQuarterly ==
    LET IsIn(frame, r) == \E i \in 1..Len(frame) :
                              frame[i].date = r.date /\ frame[i].value = r.value
        Count(frame, r) == Cardinality({i \in 1..Len(frame) :
                              frame[i].date = r.date /\ frame[i].value = r.value})
    IN  /\ pc \in {"aligned", "aligned_changes_returned"} =>
              /\ \A i \in 1..Len(quarterly_data) :
                    /\ IsIn(df, quarterly_data[i])
                    /\ quarterly_data[i].month \in {3, 6, 9, 12}
                    /\ quarterly_data[i].date =
                          12 * quarterly_data[i].year + quarterly_data[i].month - 1
              /\ \A j \in 1..Len(df) :
                    df[j].month \in {3, 6, 9, 12} => Count(quarterly_data, df[j]) = 1
              /\ \A i, j \in 1..Len(quarterly_data) :
                    i < j => quarterly_data[i].date < quarterly_data[j].date
              /\ (\A j \in 1..Len(df) : df[j].month \notin {3, 6, 9, 12}) =>
                    quarterly_data = <<>>
        /\ pc = "aligned_changes_returned" /\ quarterly_data = <<>> =>
              \A p \in Periods : changes[p] = Absent

\* thirteen months, March to March: the five quarter ends are kept, the
\* other eight months dropped, the last kept row is in the next year
C10_Witness ==
    /\ pc = "aligned"
    /\ Len(df) = 13
    /\ Len(quarterly_data) = 5
    /\ quarterly_data[4].month = 12
    /\ quarterly_data[5].month = 3
    /\ quarterly_data[5].year = quarterly_data[1].year + 1

-----------------------------------------------------------------------------
(* Properties of calculate_singularity_score, under SpecScore *)

Emitted(p) == scores[p] # Absent
UnemploymentDefined(p) == ~unemployment_changes.is_none /\ unemployment_changes.at[p] # Absent

\* lo <= x <= hi for a finite x
Within(x, lo, hi) == x.k = "fin" /\ lo * x.d <= x.n /\ x.n <= hi * x.d

\* C3: every emitted score lies in [0, 100].
C3_ScoreInRange ==
    pc = "scores_returned" =>
        \A p \in Periods : Emitted(p) => Within(scores[p], 0, 100)

\* a score strictly inside the range, and one computed from a nan change
C3_Witness ==
    /\ pc = "scores_returned"
    /\ Emitted("1_year") /\ Emitted("3_year")
    /\ labor_changes["1_year"] = NaN
    /\ scores["1_year"].k = "fin"

\* C4: in every window with a score, the weights of the table in use, taken
\* over the metrics that have a defined change for the window, sum to 1.
C4_AppliedWeightsSumToOne ==
    pc = "scores_returned" =>
        \A p \in Periods :
            Emitted(p) =>
                LET required ==
                        IF table[p] = "weights"
                        THEN FAdd(FAdd(Fin(30, 100), Fin(25, 100)), Fin(20, 100))
                        ELSE FAdd(FAdd(Fin(40, 100), Fin(35, 100)), Fin(25, 100))
                    optional ==
                        IF table[p] = "weights" /\ UnemploymentDefined(p)
                        THEN Fin(25, 100) ELSE Fin(0, 1)
                IN  FAdd(required, optional) = Fin(1, 1)

\* the weighted sum of the clipped z-scores of a window under a table
Sum3(z, a, b, c) ==
    FAdd(FAdd(FMul(Fin(a, 100), z.labor_share), FMul(Fin(b, 100), z.gdp_per_capita)),
         FMul(Fin(c, 100), z.accountants))
Sum4(z, a, b, c, d) == FAdd(Sum3(z, a, b, c), FMul(Fin(d, 100), z.unemployment))

\* C5: the weight table is selected per window: 0.40/0.35/0.25 where the
\* unemployment change of the window is undefined, 0.30/0.25/0.20/0.25 where
\* it is defined.
C5_TablePerWindow ==
    pc = "scores_returned" =>
        \A p \in Periods :
            Emitted(p) =>
                IF UnemploymentDefined(p)
                THEN weighted_z[p] = Sum4(clipped_z[p], 30, 25, 20, 25)
                ELSE weighted_z[p] = Sum3(clipped_z[p], 40, 35, 25)

\* C6: a window has a score if and only if labor share, GDP per capita and
\* accountants all have a change for it; the unemployment change plays no part
\* and a missing window is absent, not 50.
C6_EmittedIffRequired ==
    pc = "scores_returned" =>
        \A p \in Periods :
            /\ Emitted(p) <=>
                  (/\ labor_changes[p] # Absent
                   /\ gdp_changes[p] # Absent
                   /\ accountants_changes[p] # Absent)
            /\ ~Emitted(p) => scores[p] # Fin(50, 1)

\* the 2_year window is dropped for want of a GDP change although labor
\* share, accountants and unemployment have one; the 1_year window is scored
\* although unemployment has no data
C6_Witness ==
    /\ pc = "scores_returned"
    /\ Emitted("1_year") /\ ~Emitted("2_year")
    /\ labor_changes["2_year"] # Absent /\ accountants_changes["2_year"] # Absent
    /\ gdp_changes["2_year"] = Absent
    /\ UnemploymentDefined("2_year")

\* C7: every z-score that enters the weighted sum lies in [-3, 3].
C7_ClippedZInRange ==
    pc = "scores_returned" =>
        \A p \in Periods :
            Emitted(p) =>
                /\ Within(clipped_z[p].labor_share, -3, 3)
                /\ Within(clipped_z[p].gdp_per_capita, -3, 3)
                /\ Within(clipped_z[p].accountants, -3, 3)
                /\ Within(clipped_z[p].unemployment, -3, 3)

\* z is sign * change / (num/den)
IsZ(z, change, sign, num, den) ==
    CASE change.k = "fin" ->
            z.k = "fin" /\ z.n * change.d * num = sign * change.n * den * z.d
      [] change.k = "inf" -> z.k = (IF sign > 0 THEN "inf" ELSE "ninf")
      [] change.k = "ninf" -> z.k = (IF sign > 0 THEN "ninf" ELSE "inf")
      [] OTHER -> z.k = "nan"

\* C8: before clipping, z is sign * change / std_dev with labor share (-1, 2.5),
\* GDP per capita (+1, 3.0), accountants (-1, 5.0), unemployment (+1, 15.0);
\* a labor share change of -10% gives 4.0, clipped to 3.0.
C8_RawZ ==
    pc = "scores_returned" =>
        \A p \in Periods :
            Emitted(p) =>
                /\ IsZ(raw_z[p].labor_share, labor_changes[p], -1, 5, 2)
                /\ IsZ(raw_z[p].gdp_per_capita, gdp_changes[p], 1, 3, 1)
                /\ IsZ(raw_z[p].accountants, accountants_changes[p], -1, 5, 1)
                /\ UnemploymentDefined(p) =>
                      IsZ(raw_z[p].unemployment, unemployment_changes.at[p], 1, 15, 1)
                /\ labor_changes[p] = Fin(-10, 1) =>
                      /\ raw_z[p].labor_share = Fin(4, 1)
                      /\ clipped_z[p].labor_share = Fin(3, 1)

\* the example of the claim, next to z-scores that are not clipped
C8_Witness ==
    /\ pc = "scores_returned"
    /\ Emitted("1_year")
    /\ labor_changes["1_year"] = Fin(-10, 1)
    /\ raw_z["1_year"].labor_share = Fin(4, 1)
    /\ raw_z["1_year"].accountants = Fin(2, 1)
    /\ raw_z["1_year"].unemployment = Fin(-2, 3)

\* C9: score = clamp(50 + weighted_z * 50/3, 0, 100) with weighted_z the
\* weighted sum of the clipped z-scores; four z at +3 give 100, at -3 give 0,
\* and three z at 0 without the optional metric give 50.
C9_ScoreFormula ==
    pc = "scores_returned" =>
        \A p \in Periods :
            Emitted(p) =>
                LET z == clipped_z[p]
                    wz == weighted_z[p]
                    s == scores[p]
                    All(v) == /\ z.labor_share = Fin(v, 1)
                              /\ z.gdp_per_capita = Fin(v, 1)
                              /\ z.accountants = Fin(v, 1)
                IN  /\ wz = (IF table[p] = "weights"
                             THEN Sum4(z, 30, 25, 20, 25) ELSE Sum3(z, 40, 35, 25))
                    /\ wz.k = "fin" =>
                          LET num == 150 * wz.d + 50 * wz.n
                              den == 3 * wz.d
                          IN  /\ s.k = "fin"
                              /\ num < 0 => s = Fin(0, 1)
                              /\ num > 100 * den => s = Fin(100, 1)
                              /\ (0 <= num /\ num <= 100 * den) => s.n * den = num * s.d
                    /\ (table[p] = "weights" /\ All(3) /\ z.unemployment = Fin(3, 1)) =>
                          s = Fin(100, 1)
                    /\ (table[p] = "weights" /\ All(-3) /\ z.unemployment = Fin(-3, 1)) =>
                          s = Fin(0, 1)
                    /\ (~UnemploymentDefined(p) /\ table[p] = "adjusted_weights" /\ All(0)) =>
                          s = Fin(50, 1)

\* four finite changes that put every z at +3: the score is 100
C9_Witness ==
    /\ pc = "scores_returned"
    /\ table["1_year"] = "weights"
    /\ labor_changes["1_year"] = Fin(-10, 1)
    /\ gdp_changes["1_year"] = Fin(100, 1)
    /\ accountants_changes["1_year"] = Fin(-100, 1)
    /\ unemployment_changes.at["1_year"] = Fin(100, 1)
    /\ clipped_z["1_year"].unemployment = Fin(3, 1)
    /\ weighted_z["1_year"] = Fin(3, 1)
    /\ scores["1_year"] = Fin(100, 1)

-----------------------------------------------------------------------------
(* align_to_quarterly as a function: applied to any loaded frame, then to   *)
(* its own result                                                           *)

InitAlign ==
    /\ pc = "align_input"
    /\ df \in QuarterlyFrames \cup MonthlyFrames
    /\ quarterly_data = <<>>
    /\ changes = NoChanges
    /\ ScoreIdle
    /\ IngestIdle

\* quarterly_data = align_to_quarterly(df, ...)
AlignOnce ==
    /\ pc = "align_input"
    /\ df' = WithQuarterColumns(df)
    /\ quarterly_data' = align_to_quarterly(df)
    /\ pc' = "aligned_once"
    /\ UNCHANGED <<changes, scoreVars, ingestVars>>

\* realigned = align_to_quarterly(quarterly_data, ...)
AlignTwice ==
    /\ pc = "aligned_once"
    /\ quarterly_data' = WithQuarterColumns(quarterly_data)
    /\ realigned' = align_to_quarterly(quarterly_data)
    /\ pc' = "aligned_twice"
    /\ UNCHANGED <<df, changes, scoreVars, data_files, runVars, fetchVars, accountantsVars>>

NextAlign == AlignOnce \/ AlignTwice

SpecAlign == InitAlign /\ [][NextAlign]_vars

\* the frames hold the same observations in the same order
SameObservations(a, b) ==
    /\ Len(a) = Len(b)
    /\ \A i \in 1..Len(a) : a[i].date = b[i].date /\ a[i].value = b[i].value

\* at most one row in a calendar quarter
QuarterlyGranularity(frame) ==
    \A i, j \in 1..Len(frame) :
        i # j => <<frame[i].year, (frame[i].month - 1) \div 3>>
                    # <<frame[j].year, (frame[j].month - 1) \div 3>>

\* C11: a series already at quarterly granularity (at most one observation a
\* calendar quarter, as the loader delivers the quarterly metrics) passes
\* through align_to_quarterly unchanged.
C11_QuarterlyPassesThrough ==
    (pc = "aligned_once" /\ QuarterlyGranularity(df)) => SameObservations(quarterly_data, df)

\* C12: aligning the aligned series gives the same observations in the same
\* order as aligning once.
C12_AlignIdempotent ==
    pc = "aligned_twice" =>
        /\ SameObservations(realigned, quarterly_data)
        /\ realigned = quarterly_data

\* a monthly frame that lost rows in the first pass and kept five
C12_Witness ==
    /\ pc = "aligned_twice"
    /\ Len(df) = 13
    /\ Len(quarterly_data) = 5
    /\ Len(realigned) = 5

\* C14: no stage modifies what it is given: the frame handed to
\* align_to_quarterly and the frame handed to calculate_yoy_changes are the
\* same after the call as before.
C14_InputsUnchanged ==
    [][/\ pc \in {"monthly_loaded", "quarterly_loaded"} => df' = df
       /\ pc = "aligned" => quarterly_data' = quarterly_data]_vars

-----------------------------------------------------------------------------
(* The dashboard script run again and again: load_data under st.cache_data  *)

\* dashboard runs and rewrites of the processed file in a behaviour
MaxRuns == 2
MaxWrites == 2

\* the labor share files the processing step can have written
RunFrames == {StepFrame(years, pair) : years \in 1..MaxYears, pair \in ChangePairs}

InitRun ==
    /\ pc = "server_started"
    /\ df = <<>>
    /\ quarterly_data = <<>>
    /\ changes = NoChanges
    /\ ScoreIdle
    /\ realigned = <<>>
    /\ processed_file \in {File(f) : f \in RunFrames}
    /\ cache = NoFile
    /\ runs = 0
    /\ writes = 0
    /\ clock = 0
    /\ remote = <<>>
    /\ raw_file = NoFile
    /\ last_fetch = NoFetch
    /\ trend = NoTrend
    /\ raw_months = {}
    /\ missing_months = <<>>
    /\ idx = 0
    /\ attempts = <<>>
    /\ successful_fetches = 0
    /\ failed_fetches = 0
    /\ events = <<>>
    /\ previous_run = NoRun
    /\ data_files = {}

\* what load_data() returns under @st.cache_data: the stored value if there
\* is one (the function has no argument, so one entry serves every call),
\* else what the function reads from the file
load_data(stored, file) == IF stored.exists THEN stored.rows ELSE file.rows

\* process_labor_share writes the processed file anew
ProcessLaborShare ==
    /\ writes < MaxWrites
    /\ \E f \in RunFrames :
          /\ File(f) # processed_file
          /\ processed_file' = File(f)
    /\ writes' = writes + 1
    /\ UNCHANGED <<pc, metricVars, scoreVars, data_files, realigned, cache, runs, fetchVars,
                   accountantsVars>>

\* one run of the script: load_data(), then calculate_yoy_changes(labor_share_df, ...)
RunDashboard ==
    /\ runs < MaxRuns
    /\ processed_file.exists
    /\ df' = load_data(cache, processed_file)
    /\ cache' = IF cache.exists THEN cache ELSE processed_file
    /\ changes' = calculate_yoy_changes(df')
    /\ runs' = runs + 1
    /\ pc' = "run_done"
    /\ UNCHANGED <<quarterly_data, scoreVars, data_files, realigned, processed_file, writes,
                   fetchVars, accountantsVars>>

\* the streamlit server is started again: its cache is empty
RestartServer ==
    /\ cache.exists
    /\ cache' = NoFile
    /\ pc' = "server_started"
    /\ UNCHANGED <<metricVars, scoreVars, data_files, realigned, processed_file, runs, writes,
                   fetchVars, accountantsVars>>

NextRun == ProcessLaborShare \/ RunDashboard \/ RestartServer

SpecRun == InitRun /\ [][NextRun]_vars

\* C13: each run computes its series and changes from the processed file as
\* it is at that run; nothing of an earlier run is reused.
C13_RunReadsCurrentFile ==
    [][runs' # runs =>
          /\ df' = processed_file.rows
          /\ changes' = calculate_yoy_changes(processed_file.rows)]_vars

-----------------------------------------------------------------------------
(* fetch_fred_data and get_missing_quarters (pipeline/utils.py)             *)

\* the quarters argument of the call sites: 14 for the quarterly series,
\* 42 for the monthly unemployment series
Quarters(data_name) ==
    CASE data_name = "labor_share" -> 14
      [] data_name = "graduate_unemployment_rate" -> 42

\* months between two observations of the remote series
Step(data_name) ==
    CASE data_name = "labor_share" -> 3
      [] data_name = "graduate_unemployment_rate" -> 1

\* (quarter_date.year, quarter_num) of a date
YearQuarter(date) == <<DateYear(date), ((DateMonth(date) - 1) \div 3) + 1>>

\* the loop starts at the current quarter: range(target_quarters) without
\* stepping back first
PastQuarters_FromCurrent(now, target_quarters) ==
    [i \in 1..target_quarters |-> YearQuarter(now - 3 * (i - 1))]

\* past_quarters: quarter_date goes back 3 months target_quarters times
PastQuarters(now, target_quarters) ==
    [i \in 1..target_quarters |-> YearQuarter(now - 3 * i)]

\* existing_quarters: the quarters of the rows of the files of the raw
\* directory whose name holds "quarters" (the output file is the only one
\* the program writes there)
ExistingQuarters(file) ==
    IF file.exists THEN {YearQuarter(file.rows[i].date) : i \in 1..Len(file.rows)} ELSE {}

RECURSIVE NotIn(_, _)
\* [q for q in past_quarters if q not in existing_quarters]
NotIn(past, existing) ==
    IF past = <<>> THEN <<>>
    ELSE (IF Head(past) \in existing THEN <<>> ELSE <<Head(past)>>)
         \o NotIn(Tail(past), existing)

get_missing_quarters(now, target_quarters, file) ==
    NotIn(PastQuarters(now, target_quarters), ExistingQuarters(file))

\* dropna left out
DropNa_Keep(rows) == rows

RECURSIVE DropNa(_)
\* df.dropna(subset=["date", column_name])
DropNa(rows) ==
    IF rows = <<>> THEN <<>>
    ELSE (IF IsNaN(Head(rows).value) THEN <<>> ELSE <<Head(rows)>>) \o DropNa(Tail(rows))

\* df.tail(n)
TailRows(rows, n) ==
    IF Len(rows) <= n THEN rows ELSE SubSeq(rows, Len(rows) - n + 1, Len(rows))

\* "if not missing_quarters and output_path.exists()"
ServedFromFile(now, data_name, file) ==
    get_missing_quarters(now, Quarters(data_name), file) = <<>> /\ file.exists

\* fetch_fred_data when the request, if one is made, is answered
FetchFredData ==
    /\ pc \in {"waiting", "fetched"}
    /\ LET clean == DropNa(remote.rows)
           df_recent == TailRows(clean, Quarters(remote.data_name))
       IN  IF ServedFromFile(clock, remote.data_name, raw_file)
           THEN /\ last_fetch' = [outcome |-> "cached", file_before |-> raw_file,
                                  returned |-> raw_file.rows]
                /\ UNCHANGED raw_file
           ELSE IF clean = <<>>
           THEN \* df.iloc[-1] of an empty frame: IndexError before the file is written
                /\ last_fetch' = [outcome |-> "raised", file_before |-> raw_file,
                                  returned |-> <<>>]
                /\ UNCHANGED raw_file
           ELSE /\ last_fetch' = [outcome |-> "downloaded", file_before |-> raw_file,
                                  returned |-> df_recent]
                /\ raw_file' = File(df_recent)
    /\ pc' = "fetched"
    /\ UNCHANGED <<metricVars, scoreVars, data_files, realigned, runVars, clock, remote, trend,
                   accountantsVars>>

\* fetch_fred_data when requests.get or raise_for_status raises
FetchFredDataHttpError ==
    /\ pc \in {"waiting", "fetched"}
    /\ ~ServedFromFile(clock, remote.data_name, raw_file)
    /\ last_fetch' = [outcome |-> "raised", file_before |-> raw_file, returned |-> <<>>]
    /\ pc' = "fetched"
    /\ UNCHANGED <<metricVars, scoreVars, data_files, realigned, runVars, clock, remote, raw_file,
                   trend, accountantsVars>>

-----------------------------------------------------------------------------
(* fetch_fred_data over time: the clock advances, FRED publishes            *)

\* months the clock advances in a behaviour
MaxTicks == 3
\* observations the remote series is behind at the start
MaxLag == 1
\* months after January of the first clock
MaxStartShift == 2

\* the date of the newest observation FRED can hold: the quarter (month)
\* before the current one
LatestPublishable(data_name, now) ==
    IF Step(data_name) = 3 THEN 3 * (now \div 3) - 3 ELSE now - 1

\* count observations, one every Step months, the newest dated last
RemoteRows(data_name, last, count) ==
    [i \in 1..count |->
        [date |-> last - Step(data_name) * (count - i), value |-> Fin(10, 1)]]

FirstClock == MakeDate(StartYear + 4, 1)

InitFetch ==
    /\ pc = "waiting"
    /\ df = <<>>
    /\ quarterly_data = <<>>
    /\ changes = NoChanges
    /\ ScoreIdle
    /\ realigned = <<>>
    /\ processed_file = NoFile
    /\ cache = NoFile
    /\ runs = 0
    /\ writes = 0
    /\ clock \in {FirstClock + k : k \in 0..MaxStartShift}
    /\ \E data_name \in {"labor_share", "graduate_unemployment_rate"}, lag \in 0..MaxLag :
          remote = [data_name |-> data_name,
                    rows |-> RemoteRows(data_name,
                                        LatestPublishable(data_name, clock)
                                            - lag * Step(data_name),
                                        Quarters(data_name) + 1)]
    /\ raw_file = NoFile
    /\ last_fetch = NoFetch
    /\ trend = NoTrend
    /\ raw_months = {}
    /\ missing_months = <<>>
    /\ idx = 0
    /\ attempts = <<>>
    /\ successful_fetches = 0
    /\ failed_fetches = 0
    /\ events = <<>>
    /\ previous_run = NoRun
    /\ data_files = {}

\* a month passes
Tick ==
    /\ pc \in {"waiting", "fetched"}
    /\ clock < FirstClock + MaxStartShift + MaxTicks
    /\ clock' = clock + 1
    /\ pc' = "waiting"
    /\ UNCHANGED <<metricVars, scoreVars, data_files, realigned, runVars, remote, raw_file,
                   last_fetch, trend, accountantsVars>>

\* FRED publishes the next observation
Publish ==
    /\ pc \in {"waiting", "fetched"}
    /\ LET next == remote.rows[Len(remote.rows)].date + Step(remote.data_name)
       IN  /\ next <= LatestPublishable(remote.data_name, clock)
           /\ remote' = [remote EXCEPT !.rows =
                            Append(@, [date |-> next, value |-> Fin(10, 1)])]
    /\ pc' = "waiting"
    /\ UNCHANGED <<metricVars, scoreVars, data_files, realigned, runVars, clock, raw_file,
                   last_fetch, trend, accountantsVars>>

NextFetch == FetchFredData \/ FetchFredDataHttpError \/ Tick \/ Publish

SpecFetch == InitFetch /\ [][NextFetch]_vars

\* at least one of the n calendar quarters before the quarter of now has no
\* row in the file
LacksAPrecedingQuarter(file, now, n) ==
    \E k \in 1..n :
        \A i \in 1..Len(file.rows) : file.rows[i].date \div 3 # (now \div 3) - k

\* C16: fetch_fred_data downloads only when the output file is absent or one
\* of the N quarters before the current quarter has no row in the saved data;
\* otherwise it returns the saved content, makes no request, writes no file.
C16_DownloadOnlyWhenMissing ==
    pc = "fetched" =>
        LET before == last_fetch.file_before
            n == IF remote.data_name = "labor_share" THEN 14 ELSE 42
            needed == ~before.exists \/ LacksAPrecedingQuarter(before, clock, n)
        IN  /\ (last_fetch.outcome \in {"downloaded", "raised"}) <=> needed
            /\ last_fetch.outcome = "cached" =>
                  /\ last_fetch.returned = before.rows
                  /\ raw_file = before

\* a call served from the file a download of the quarter before had saved
C16_Witness ==
    /\ pc = "fetched"
    /\ last_fetch.outcome = "cached"
    /\ Len(last_fetch.returned) = 14
    /\ raw_file.exists

\* C20: a second fetch_fred_data call right after a successful one, with the
\* same clock and the same remote data, is served from the saved file, for the
\* quarterly series (quarters=14) and the monthly one (quarters=42).
C20_SecondFetchIsCached ==
    [][(/\ pc = "fetched"
        /\ last_fetch.outcome \in {"downloaded", "cached"}
        /\ pc' = "fetched") => last_fetch'.outcome = "cached"]_vars

-----------------------------------------------------------------------------
(* one quarterly series from FRED to the dashboard: fetch_labor_share_data  *)
(* (fetch_fred_data, analyze_trend), process_labor_share, the dashboard run *)

\* rows of the remote series
MaxRemote == 16
\* rows of the remote series whose value is missing
MaxNaN == 2

\* analyze_trend: iloc[-1], iloc[-5] and iloc[-9] of a frame of 8 rows or
\* more; iloc[-9] of a frame of exactly 8 rows is out of bounds
analyze_trend(frame) ==
    LET last == Len(frame)
    IN  IF last >= 8
        THEN IF last - 8 < 1
             THEN [outcome |-> "IndexError", one_year_change |-> Absent,
                   two_year_change |-> Absent]
             ELSE [outcome |-> "returned",
                   one_year_change |-> PctChange(frame[last].value, frame[last - 4].value),
                   two_year_change |-> PctChange(frame[last].value, frame[last - 8].value)]
        ELSE [outcome |-> "returned", one_year_change |-> Absent,
              two_year_change |-> Absent]

\* process_labor_share: the date of each raw row split into year and month;
\* load_data builds the date from them again
process_labor_share(file) ==
    File([i \in 1..Len(file.rows) |->
            Row(DateYear(file.rows[i].date), DateMonth(file.rows[i].date),
                file.rows[i].value)])

\* the remote series: len quarterly rows up to the newest publishable one,
\* missing values at the positions gaps
GappedRows(len, gaps, shift) ==
    [i \in 1..len |->
        [date |-> LatestPublishable("labor_share", FirstClock) - 3 * (len - i),
         value |-> IF i \in gaps THEN NaN
                   ELSE Fin(ValueList[((i + shift) % Len(ValueList)) + 1], 1)]]

InitClean ==
    /\ pc = "waiting"
    /\ df = <<>>
    /\ quarterly_data = <<>>
    /\ changes = NoChanges
    /\ ScoreIdle
    /\ realigned = <<>>
    /\ processed_file = NoFile
    /\ cache = NoFile
    /\ runs = 0
    /\ writes = 0
    /\ clock = FirstClock
    /\ \E len \in 0..MaxRemote, shift \in 0..2 :
          \E gaps \in {g \in SUBSET (1..len) : Cardinality(g) <= MaxNaN} :
              remote = [data_name |-> "labor_share", rows |-> GappedRows(len, gaps, shift)]
    /\ raw_file = NoFile
    /\ last_fetch = NoFetch
    /\ trend = NoTrend
    /\ raw_months = {}
    /\ missing_months = <<>>
    /\ idx = 0
    /\ attempts = <<>>
    /\ successful_fetches = 0
    /\ failed_fetches = 0
    /\ events = <<>>
    /\ previous_run = NoRun
    /\ data_files = {}

\* fetch_labor_share_data after fetch_fred_data returned: analyze_trend(df_recent)
AnalyzeTrend ==
    /\ pc = "fetched"
    /\ last_fetch.outcome \in {"downloaded", "cached"}
    /\ trend' = analyze_trend(last_fetch.returned)
    /\ pc' = "trend_done"
    /\ UNCHANGED <<metricVars, scoreVars, data_files, realigned, runVars, clock, remote, raw_file,
                   last_fetch, accountantsVars>>

\* the processing script, run once the raw file is there
ProcessRawFile ==
    /\ pc \in {"fetched", "trend_done"}
    /\ raw_file.exists
    /\ processed_file' = process_labor_share(raw_file)
    /\ pc' = "processed"
    /\ UNCHANGED <<metricVars, scoreVars, data_files, realigned, cache, runs, writes, fetchVars,
                   accountantsVars>>

NextClean == FetchFredData \/ AnalyzeTrend \/ ProcessRawFile \/ RunDashboard

SpecClean == InitClean /\ [][NextClean]_vars

\* the observations of the remote series that hold a value, the last n of them
Observed(rows, n) ==
    LET held == SelectSeq(rows, LAMBDA r : r.value.k = "fin")
    IN  IF Len(held) <= n THEN held ELSE [i \in 1..n |-> held[Len(held) - n + i]]

\* C15: observations whose value is missing are excluded before any change is
\* computed: no value the dashboard computes changes from is missing, and the
\* P periods of a window are counted over the observations that hold a value.
C15_MissingExcluded ==
    pc = "run_done" =>
        LET S == Observed(remote.rows, 14)
            last == Len(S)
            Window(p, P) ==
                /\ (changes[p] # Absent) <=> (last > P)
                /\ last > P =>
                      IsPctChange(changes[p], Whole(S[last].value), Whole(S[last - P].value))
        IN  /\ Len(df) = last
            /\ \A i \in 1..Len(df) : ~IsNaN(df[i].value)
            /\ Window("1_year", 4) /\ Window("2_year", 8) /\ Window("3_year", 12)

\* 16 remote rows, the newest and the one a year before the newest observed
\* value missing: all three windows are computed from the 14 that remain
C15_Witness ==
    /\ pc = "run_done"
    /\ Len(remote.rows) = 16
    /\ IsNaN(remote.rows[16].value)
    /\ IsNaN(remote.rows[11].value)
    /\ Len(df) = 14
    /\ changes["3_year"] # Absent

\* C19: analyze_trend completes without raising for every frame; with 8 rows
\* or more it computes the 1-year change against the row 4 positions before
\* the last and the 2-year change against the row 8 positions before the
\* last, with fewer than 8 rows it computes nothing.
C19_AnalyzeTrend ==
    pc = "trend_done" =>
        LET frame == last_fetch.returned
            last == Len(frame)
        IN  /\ trend.outcome = "returned"
            /\ last >= 8 =>
                  /\ IsPctChange(trend.one_year_change, Whole(frame[last].value),
                                 Whole(frame[last - 4].value))
                  /\ IsPctChange(trend.two_year_change, Whole(frame[last].value),
                                 Whole(frame[last - 8].value))
            /\ last < 8 =>
                  /\ trend.one_year_change = Absent
                  /\ trend.two_year_change = Absent

-----------------------------------------------------------------------------
(* fetch_accountants_employed_data, fetch_month_data, get_missing_months    *)
(* (pipeline/ingestion/fetch_accountants_employed.py)                       *)

\* the months without a file when the run starts
MaxMissing == 3

\* past_months: 1 to 40 months back, the newest first, as (year, month)
PastMonths(now) == [i \in 1..40 |-> <<DateYear(now - i), DateMonth(now - i)>>]

\* accountants_{month_abbr}{year_short}.csv: the month and the last two digits
\* of the year
FileName(ym) == <<ym[2], ym[1] % 100>>

\* the (year, month) get_missing_months reads from a file name
MonthOfFile(name) ==
    <<IF name[2] < 50 THEN 2000 + name[2] ELSE 1900 + name[2], name[1]>>

ExistingMonths(files) == {MonthOfFile(name) : name \in files}

get_missing_months(now, files) == NotIn(PastMonths(now), ExistingMonths(files))

\* the order of (year, month) tuples
TupleLess(a, b) == a[1] < b[1] \/ (a[1] = b[1] /\ a[2] < b[2])

RECURSIVE InsertMonth(_, _)
InsertMonth(ym, months) ==
    IF months = <<>> THEN <<ym>>
    ELSE IF TupleLess(ym, Head(months)) THEN <<ym>> \o months
    ELSE <<Head(months)>> \o InsertMonth(ym, Tail(months))

\* the loop goes over missing_months as get_missing_months returned it
SortMonths_AsReturned(months) == months

RECURSIVE SortMonths(_)
\* sorted(missing_months)
SortMonths(months) ==
    IF months = <<>> THEN <<>> ELSE InsertMonth(Head(months), SortMonths(Tail(months)))

\* enumerate([60, 120, 180], 1)
Timeouts == <<60, 120, 180>>

\* what a request can come to: a response with accountants' rows, a response
\* without (no ptio1ocd column, no row with code 800, a body that does not
\* parse), a timeout, another RequestException (HTTP error, connection error)
Outcomes == {"rows", "no_rows", "timeout", "error"}

\* every failed request is followed by another one until the third
Retries_AnyFailure(attempt, outcome) == outcome \in {"timeout", "error"} /\ attempt # 3

\* "except requests.exceptions.Timeout: if attempt == 3: raise; continue"
Retries(attempt, outcome) == outcome = "timeout" /\ attempt # 3

\* what fetch_month_data returns once the attempts are over: the frame when
\* rows were found and saved; None otherwise, the third Timeout and every
\* other RequestException being caught by the outer handlers
fetch_month_data_result(outcome) ==
    LET raised == CASE outcome = "timeout" -> "Timeout"
                    [] outcome = "error" -> "RequestException"
                    [] OTHER -> "none"
        caught == raised \in {"Timeout", "RequestException", "Exception"}
    IN  IF raised # "none"
        THEN (IF caught THEN "None" ELSE "raised")
        ELSE (IF outcome = "rows" THEN "df" ELSE "None")

\* the file is written whenever the response was read, also with no row of
\* code 800 in it
SavedFiles_AlsoEmpty(saved, ym, outcome) ==
    IF outcome \in {"rows", "no_rows"} THEN saved \cup {FileName(ym)} ELSE saved

\* "if len(accountants_df) > 0: ... accountants_df.to_csv(filtered_path)": the
\* raw directory after the call
SavedFiles(saved, ym, outcome) ==
    IF outcome = "rows" THEN saved \cup {FileName(ym)} ELSE saved

GetEvent(ym, timeout, outcome) ==
    [kind |-> "get", month |-> ym, timeout |-> timeout, outcome |-> outcome]
ReturnEvent(ym, result) ==
    [kind |-> "return", month |-> ym, timeout |-> 0, outcome |-> result]
SleepEvent(ym) ==
    [kind |-> "sleep", month |-> ym, timeout |-> 2, outcome |-> "slept"]

AccountantsClock == MakeDate(StartYear + 4, 3)

\* the months that may lack a file: the newest MaxMissing + 1
RecentMonths == {PastMonths(AccountantsClock)[i] : i \in 1..(MaxMissing + 1)}

InitAccountants ==
    /\ pc = "waiting"
    /\ df = <<>>
    /\ quarterly_data = <<>>
    /\ changes = NoChanges
    /\ ScoreIdle
    /\ realigned = <<>>
    /\ processed_file = NoFile
    /\ cache = NoFile
    /\ runs = 0
    /\ writes = 0
    /\ clock = AccountantsClock
    /\ remote = <<>>
    /\ raw_file = NoFile
    /\ last_fetch = NoFetch
    /\ trend = NoTrend
    /\ \E lacking \in {m \in SUBSET RecentMonths : Cardinality(m) <= MaxMissing} :
          raw_months = {FileName(PastMonths(clock)[i]) : i \in 1..40}
                          \ {FileName(ym) : ym \in lacking}
    /\ missing_months = <<>>
    /\ idx = 0
    /\ attempts = <<>>
    /\ successful_fetches = 0
    /\ failed_fetches = 0
    /\ events = <<>>
    /\ previous_run = NoRun
    /\ data_files = {}

\* the months for which a call of fetch_month_data returned a frame
FetchedMonths(log) ==
    {log[i].month : i \in {j \in 1..Len(log) : log[j].kind = "return" /\ log[j].outcome = "df"}}

\* fetch_accountants_employed_data up to the loop; the script is run a first
\* time and, when that run is over, a second time at the same clock
StartFetchAccountants ==
    /\ pc = "waiting" \/ (pc = "done" /\ ~previous_run.ran)
    /\ previous_run' = IF pc = "done"
                       THEN [ran |-> TRUE, missing |-> missing_months,
                             fetched |-> FetchedMonths(events)]
                       ELSE previous_run
    /\ missing_months' = get_missing_months(clock, raw_months)
    /\ IF missing_months' = <<>>
       THEN pc' = "done" /\ idx' = 0
       ELSE pc' = "loop" /\ idx' = 1
    /\ attempts' = <<>>
    /\ successful_fetches' = 0
    /\ failed_fetches' = 0
    /\ events' = <<>>
    /\ UNCHANGED <<metricVars, scoreVars, data_files, realigned, runVars, fetchVars, raw_months>>

\* one session.get of fetch_month_data for the month of the loop and, when
\* it is the last one for the month, the rest of fetch_month_data and of
\* the loop body: the file, the counters, the pause
Attempt ==
    /\ pc = "loop"
    /\ \E outcome \in Outcomes :
          LET ym == SortMonths(missing_months)[idx]
              attempt == Len(attempts) + 1
              timeout == Timeouts[attempt]
              result == fetch_month_data_result(outcome)
          IN  IF Retries(attempt, outcome)
              THEN /\ attempts' = Append(attempts, timeout)
                   /\ events' = Append(events, GetEvent(ym, timeout, outcome))
                   /\ UNCHANGED <<pc, raw_months, idx, successful_fetches, failed_fetches>>
              ELSE /\ attempts' = <<>>
                   /\ raw_months' = SavedFiles(raw_months, ym, outcome)
                   /\ successful_fetches' =
                          IF result # "None" THEN successful_fetches + 1
                          ELSE successful_fetches
                   /\ failed_fetches' =
                          IF result # "None" THEN failed_fetches ELSE failed_fetches + 1
                   /\ events' = events
                                  \o <<GetEvent(ym, timeout, outcome), ReturnEvent(ym, result)>>
                                  \o (IF idx < Len(missing_months) THEN <<SleepEvent(ym)>>
                                      ELSE <<>>)
                   /\ idx' = idx + 1
                   /\ pc' = IF idx < Len(missing_months) THEN "loop" ELSE "done"
    /\ UNCHANGED <<metricVars, scoreVars, data_files, realigned, runVars, fetchVars, missing_months,
                   previous_run>>

NextAccountants == StartFetchAccountants \/ Attempt

SpecAccountants == InitAccountants /\ [][NextAccountants]_vars

\* C17: fetch_month_data makes at most three requests for a month, with
\* timeouts 60, 120, 180 in that order; a request follows another only after
\* that one timed out; any other failure, and the third timeout, end the call,
\* which then returns None without raising, and no file is written for the
\* month.
C17_RetryOnlyAfterTimeout ==
    \A i \in 1..Len(events) :
        events[i].kind = "get" =>
            LET e == events[i]
                follows == i > 1 /\ events[i - 1].kind = "get"
                over == e.outcome # "timeout" \/ e.timeout = 180
            IN  /\ IF follows
                   THEN /\ events[i - 1].outcome = "timeout"
                        /\ events[i - 1].month = e.month
                        /\ <<events[i - 1].timeout, e.timeout>> \in {<<60, 120>>, <<120, 180>>}
                   ELSE e.timeout = 60
                /\ over =>
                      /\ i < Len(events)
                      /\ events[i + 1].kind = "return"
                      /\ events[i + 1].outcome \in {"df", "None"}
                      /\ e.outcome \in {"timeout", "error"} =>
                            /\ events[i + 1].outcome = "None"
                            /\ FileName(e.month) \notin raw_months
                /\ ~over => (i < Len(events) => events[i + 1].kind = "get")

\* a month given up after three timeouts, no file written for it
C17_Witness ==
    /\ Len(events) >= 4
    /\ events[1].kind = "get" /\ events[1].outcome = "timeout"
    /\ events[2].kind = "get" /\ events[2].outcome = "timeout"
    /\ events[3].kind = "get" /\ events[3].outcome = "timeout" /\ events[3].timeout = 180
    /\ events[4].kind = "return" /\ events[4].outcome = "None"
    /\ FileName(events[1].month) \notin raw_months

\* the calls of fetch_month_data that have returned, in order
Returns == SelectSeq(events, LAMBDA e : e.kind = "return")

\* C18: fetch_accountants_employed_data attempts every missing month exactly
\* once, in increasing (year, month) order, goes on after a month fails, ends
\* with successful + failed = number of missing months, and pauses between
\* consecutive requests but not after the last one.
C18_EveryMissingMonthOnce ==
    LET lacking == {missing_months[i] : i \in 1..Len(missing_months)}
        Index(ym) == ym[1] * 12 + ym[2]
    IN  /\ \A i \in 1..Len(Returns) : Returns[i].month \in lacking
        /\ \A i, j \in 1..Len(Returns) :
              i < j => Index(Returns[i].month) < Index(Returns[j].month)
        /\ \A i \in 1..Len(events) :
              /\ (events[i].kind = "get" /\ i > 1 /\ events[i - 1].kind # "get")
                    => events[i - 1].kind = "sleep"
              /\ events[i].kind = "sleep" => (i > 1 /\ events[i - 1].kind = "return")
        /\ pc = "done" =>
              /\ {Returns[i].month : i \in 1..Len(Returns)} = lacking
              /\ successful_fetches + failed_fetches = Len(missing_months)
              /\ successful_fetches
                    = Cardinality({i \in 1..Len(Returns) : Returns[i].outcome = "df"})
              /\ events # <<>> => events[Len(events)].kind = "return"

\* three missing months across a year's end, the second one failed, the
\* other two fetched
C18_Witness ==
    /\ pc = "done"
    /\ Len(missing_months) = 3
    /\ Len(Returns) = 3
    /\ Returns[1].month[1] < Returns[3].month[1]
    /\ Returns[2].outcome = "None"
    /\ successful_fetches = 2
    /\ failed_fetches = 1

\* the months a run has sent a request for
Requested(log) == {log[i].month : i \in {j \in 1..Len(log) : log[j].kind = "get"}}

\* C21: after a run of fetch_accountants_employed_data, get_missing_months at
\* the same clock returns the months of that run whose download failed or
\* held no record with code 800, and only those: when every month was fetched
\* the list is empty and the second run makes no request; a month that was
\* not fetched is requested again.
C21_SecondRunFetchesWhatFailed ==
    previous_run.ran =>
        LET before == {previous_run.missing[i] : i \in 1..Len(previous_run.missing)}
            now == {missing_months[i] : i \in 1..Len(missing_months)}
        IN  /\ now = before \ previous_run.fetched
            /\ Len(missing_months) = Cardinality(now)
            /\ previous_run.fetched = before =>
                  /\ missing_months = <<>>
                  /\ events = <<>>
                  /\ pc = "done"
            /\ Requested(events) \subseteq now
            /\ pc = "done" => Requested(events) = now

\* a first run with three missing months of which two were fetched; the
\* second run has asked for the third one again and is over
C21_Witness ==
    /\ previous_run.ran
    /\ Len(previous_run.missing) = 3
    /\ Cardinality(previous_run.fetched) = 2
    /\ pc = "done"
    /\ Len(missing_months) = 1
    /\ Requested(events) = {missing_months[1]}

-----------------------------------------------------------------------------
(* the four processing scripts and the dashboard's load_data: which file    *)
(* each one writes and which file load_data opens                           *)

Metrics == {"labor_share", "real_gdp_per_capita", "accountants_employed",
            "graduate_unemployment_rate"}

\* the raw files a processing script looks for (raw_dir.glob)
RawPath(metric) ==
    CASE metric = "labor_share" -> "data/raw/labor_share/labor_share_last_*.csv"
      [] metric = "real_gdp_per_capita" ->
            "data/raw/real_gdp_per_capita/real_gdp_per_capita_last_*.csv"
      [] metric = "accountants_employed" -> "data/raw/accountants_employed/accountants_*.csv"
      [] metric = "graduate_unemployment_rate" ->
            "data/raw/graduate_unemployment_rate/graduate_unemployment_rate_last_*.csv"

\* output_path of the metric's processing script
OutputPath(metric) ==
    CASE metric = "labor_share" -> "data/processed/labor_share/labor_share_processed.csv"
      [] metric = "real_gdp_per_capita" ->
            "data/processed/real_gdp_per_capita/real_gdp_per_capita_processed.csv"
      [] metric = "accountants_employed" ->
            "data/processed/accountants_employed/accountants_employment_summary.csv"
      [] metric = "graduate_unemployment_rate" ->
            "data/processed/graduate_unemployment_rate/graduate_unemployment_rate_processed.csv"

\* the path load_data reads the metric from
LoadPath(metric) ==
    CASE metric = "labor_share" -> "data/processed/labor_share/labor_share_processed.csv"
      [] metric = "real_gdp_per_capita" ->
            "data/processed/real_gdp_per_capita/real_gdp_per_capita_processed.csv"
      [] metric = "accountants_employed" ->
            "data/processed/accountants_employed/accountants_employed_processed.csv"
      [] metric = "graduate_unemployment_rate" ->
            "data/processed/graduate_unemployment_rate/graduate_unemployment_rate_processed.csv"

\* the metrics load_data reads without testing that the file exists
RequiredMetrics == {"labor_share", "real_gdp_per_capita", "accountants_employed"}

\* how load_data ends with these paths on disk: pd.read_csv of a path that
\* is not there raises FileNotFoundError; the unemployment file is optional
LoadOutcome(paths) ==
    IF \E metric \in RequiredMetrics : LoadPath(metric) \notin paths
    THEN "FileNotFoundError"
    ELSE IF LoadPath("graduate_unemployment_rate") \in paths
    THEN "data_loaded"
    ELSE "data_loaded_unemployment_none"

LoadOutcomes == {"FileNotFoundError", "data_loaded", "data_loaded_unemployment_none"}

InitPipeline ==
    /\ pc = "waiting"
    /\ df = <<>>
    /\ quarterly_data = <<>>
    /\ changes = NoChanges
    /\ ScoreIdle
    /\ realigned = <<>>
    /\ processed_file = NoFile
    /\ cache = NoFile
    /\ runs = 0
    /\ writes = 0
    /\ clock = 0
    /\ remote = <<>>
    /\ raw_file = NoFile
    /\ last_fetch = NoFetch
    /\ trend = NoTrend
    /\ raw_months = {}
    /\ missing_months = <<>>
    /\ idx = 0
    /\ attempts = <<>>
    /\ successful_fetches = 0
    /\ failed_fetches = 0
    /\ events = <<>>
    /\ previous_run = NoRun
    /\ \E fetched \in SUBSET Metrics : data_files = {RawPath(metric) : metric \in fetched}

\* one of the process_* scripts, run on raw data that is there
ProcessStep ==
    /\ \E metric \in Metrics :
          /\ RawPath(metric) \in data_files
          /\ data_files' = data_files \cup {OutputPath(metric)}
    /\ pc' = "waiting"
    /\ UNCHANGED <<metricVars, scoreVars, realigned, runVars, fetchVars, accountantsVars>>

\* the dashboard script up to the return of load_data
LoadProcessedData ==
    /\ pc = "waiting"
    /\ pc' = LoadOutcome(data_files)
    /\ UNCHANGED <<metricVars, scoreVars, ingestVars>>

NextPipeline == ProcessStep \/ LoadProcessedData

SpecPipeline == InitPipeline /\ [][NextPipeline]_vars

\* C22: for every metric the file the processing script writes is the file
\* load_data reads: once the four process_* scripts have run on raw data
\* that is there, load_data finds the labor share, GDP per capita and
\* accountants files and does not end with FileNotFoundError.
C22_LoadFindsProcessedFiles ==
    (/\ pc \in LoadOutcomes
     /\ \A metric \in Metrics :
           RawPath(metric) \in data_files /\ OutputPath(metric) \in data_files)
        => /\ pc # "FileNotFoundError"
           /\ \A metric \in RequiredMetrics :
                 /\ LoadPath(metric) \in data_files
                 /\ OutputPath(metric) = LoadPath(metric)

====
